---------------------------- MODULE Spec2Model ----------------------------
(***************************************************************************)
(* A model of cuvva/ksuid-go: the ID value with its text form (Parse,      *)
(* Bytes, splitPrefixID, Equal), the base-62 decoder, the generator Node   *)
(* and the Set.                                                            *)
(*                                                                         *)
(* Text is a sequence of byte values (0..255).  A time.Time is the pair    *)
(* (sec, nsec): Unix seconds and the sub-second part, the latter counted   *)
(* in ticks of 1/TicksPerSec second instead of nanoseconds.  A pointer is  *)
(* the number of the allocation it points to.                              *)
(***************************************************************************)
EXTENDS Integers, Sequences, FiniteSets, TLC

VARIABLES
    \* Node (src/unnamed/part_001:33-41) and the callers of Generate
    nodeEnv,    \* Node.Environment
    nodeIID,    \* Node.InstanceID
    ts,         \* Node.ts
    seq,        \* Node.seq
    mu,         \* Node.mu: the process holding it, or NoProc
    pc,         \* where each caller of Generate stands
    id,         \* each caller's result variable (id ID)
    calls,      \* number of Generate calls that passed the clock reading
    prev,       \* the call before the last one, in lock order
    last,       \* the last call, in lock order: its clock reading and result
    issued,     \* the (whole second, sequence) pairs returned so far
    dup,        \* some call returned a pair an earlier call had returned
    monotone,   \* every clock reading so far was >= the one before it
    warg,       \* the value each caller of SetEnvironment or SetInstanceID is storing
    overrides,  \* number of SetEnvironment and SetInstanceID calls started
    fieldRace,  \* some Generate read a field while an override was storing it
    \* a caller of the ID functions (src/id.go)
    fn,         \* the function called: "Equal", "Parse", "Split", "Decode", "RoundTrip"
    step,       \* how many of the call's steps are done
    argA,       \* the receiver (an ID)
    argB,       \* the argument of Equal (an ID)
    text,       \* the argument of Parse and splitPrefixID, the result of Bytes
    ret,        \* the result of Equal, Parse, splitPrefixID or fastDecodeBase62
    buf,        \* the output buffer fastDecodeBase62 is given
    \* Set (src/unnamed/part_002:11-16) and its callers
    items,      \* Set.items
    lookup,     \* Set.lookup: the keys of the map
    smu,        \* Set.mu: the writer holding it (or NoProc) and the readers
    spc,        \* where each caller of the Set stands
    sarg,       \* each caller's argument
    sret,       \* each caller's last return value
    sbefore,    \* Set.items as an Append or a Delete found it
    sops,       \* number of Set operations started
    newSetArg,  \* the array NewSet was given
    lbefore,    \* the keys of Set.lookup as a Delete found them
    iter,       \* each caller's Iterator, with what it has yielded so far
    lenRace     \* some Len read Set.items while a writer held Set.mu

nodeVars == <<nodeEnv, nodeIID, ts, seq, mu, pc, id, calls, prev, last, issued, dup, monotone,
              warg, overrides, fieldRace>>
idVars == <<fn, step, argA, argB, text, ret, buf>>

setVars == <<items, lookup, smu, spc, sarg, sret, sbefore, sops, newSetArg,
             lbefore, iter, lenRace>>

vars == <<nodeVars, idVars, setVars>>

-----------------------------------------------------------------------------
(* Bounds of the model *)

\* clock readings lie in the seconds BaseSec .. BaseSec + MaxSec
MaxSec == 2
\* sub-second resolution of the clock (the source has nanoseconds)
TicksPerSec == 2
\* Generate, SetEnvironment and SetInstanceID calls in one behaviour
MaxCalls == 5
\* width of Node.seq in the model; the source's uint32 has 32 bits, and the
\* counter wraps the same way at 2^32
SeqBits == 2

\* the second of the test vector, 2018-04-05T16:53:42Z (src/id_test.go:56)
BaseSec == 1522947222

Procs == {"p1", "p2"}
NoProc == "none"

RECURSIVE Pow2(_)
Pow2(n) == IF n = 0 THEN 1 ELSE 2 * Pow2(n - 1)

SeqMod == Pow2(SeqBits)

-----------------------------------------------------------------------------
(* Text *)

Underscore == 95
Char0 == 48
Char9 == 57
CharA == 65
CharZ == 90
Chara == 97
Charz == 122

\* "prod"
Production == <<112, 114, 111, 100>>
\* "test"
EnvTest == <<116, 101, 115, 116>>
\* "user"
ResUser == <<117, 115, 101, 114>>
EmptyText == <<>>

-----------------------------------------------------------------------------
(* time.Time *)

Time(s, n) == [sec |-> s, nsec |-> n]

\* the zero time.Time (January 1, year 1): a stand-in second before every
\* clock reading, more than a second before the earliest one
ZeroTime == Time(-1, 0)

\* t.Sub(u) > 1*time.Second
SubGtSecond(t, u) ==
    LET ds == t.sec - u.sec
    IN  ds > 1 \/ (ds = 1 /\ t.nsec > u.nsec)

\* t.Before(u) \/ t.Equal(u)
TimeLeq(t, u) == t.sec < u.sec \/ (t.sec = u.sec /\ t.nsec <= u.nsec)

\* t.Equal(u): the same instant
TimeEqual(t, u) == t.sec = u.sec /\ t.nsec = u.nsec

\* t.Unix()
Unix(t) == t.sec

ClockReadings == { Time(BaseSec + s, n) : s \in 0..MaxSec, n \in 0..(TicksPerSec - 1) }

-----------------------------------------------------------------------------
(* InstanceID (src/unnamed/part_002:147-333) *)

\* a nil InstanceID interface
Nil == [kind |-> "nil"]

SchemeH == 72
SchemeD == 68
SchemeR == 82

\* &HardwareID{MachineID, ProcessID}, allocated as number ptr
HardwareID(ptr, machine, pid) ==
    [kind |-> "H", ptr |-> ptr, MachineID |-> machine, ProcessID |-> pid]
\* &DockerID{ContainerID}
DockerID(ptr, cid) == [kind |-> "D", ptr |-> ptr, ContainerID |-> cid]
\* &RandomID{Random}
RandomID(ptr, rnd) == [kind |-> "R", ptr |-> ptr, Random |-> rnd]

\* the hardware id of the test vector (src/id_test.go:57-60)
TestMachine == <<140, 133, 144, 95, 68, 202>>
TestPid == 32985

-----------------------------------------------------------------------------
(* ID (src/id.go:14-21) *)

MkID(env, res, t, iid, s) ==
    [Environment |-> env, Resource |-> res, Timestamp |-> t,
     InstanceID |-> iid, SequenceID |-> s]

\* ID{}
ZeroID == MkID(EmptyText, EmptyText, ZeroTime, Nil, 0)

-----------------------------------------------------------------------------
(* Byte slices *)

\* make([]byte, n)
Zeros(n) == [k \in 1..n |-> 0]

\* s[a:b], with Go's 0-based bounds
Slice(s, a, b) == SubSeq(s, a + 1, b)

\* copy(dst[off:], src): as many bytes as fit
CopyInto(dst, off, src) ==
    [k \in 1..Len(dst) |-> IF k > off /\ k <= off + Len(src) THEN src[k - off] ELSE dst[k]]

\* dst[i] = b, with Go's 0-based index
SetByte(dst, i, b) == [dst EXCEPT ![i + 1] = b]

\* bytes.IndexByte(s, c): the first index of c in s, -1 if there is none
IndexByte(s, c) ==
    IF \E k \in 1..Len(s) : s[k] = c
    THEN (CHOOSE k \in 1..Len(s) : s[k] = c /\ \A j \in 1..(k - 1) : s[j] # c) - 1
    ELSE -1

\* bytes.LastIndexByte(s, c): the last index of c in s, -1 if there is none
LastIndexByte(s, c) ==
    IF \E k \in 1..Len(s) : s[k] = c
    THEN (CHOOSE k \in 1..Len(s) : s[k] = c /\ \A j \in (k + 1)..Len(s) : s[j] # c) - 1
    ELSE -1

\* v >> (8*k), for a two's complement v
RECURSIVE ShiftRight8(_, _)
ShiftRight8(v, k) == IF k = 0 THEN v ELSE ShiftRight8(v \div 256, k - 1)

\* binary.BigEndian.PutUint64 / PutUint32 / PutUint16 of v in n bytes
PutUint(v, n) == [k \in 1..n |-> ShiftRight8(v, n - k) % 256]

\* the number a big-endian byte string stands for
RECURSIVE BigEndian(_)
BigEndian(b) ==
    IF Len(b) = 0 THEN 0 ELSE 256 * BigEndian(SubSeq(b, 1, Len(b) - 1)) + b[Len(b)]

\* binary.BigEndian.Uint32(b).  A uint32 above 2^31 - 1 is held as the int32
\* with the same bits, which PutUint writes back as the same four bytes.
Uint32(b) ==
    IF b[1] < 128 THEN BigEndian(b)
    ELSE BigEndian([b EXCEPT ![1] = @ - 128]) - 2147483647 - 1

\* a second that does not fit 32 bits
OutOfRangeSec == 0 - 2147483647

\* int64(binary.BigEndian.Uint64(b)), OutOfRangeSec when it does not fit 32 bits
Int64(b) ==
    IF SubSeq(b, 1, 4) = Zeros(4) /\ b[5] < 128 THEN Uint32(SubSeq(b, 5, 8))
    ELSE IF SubSeq(b, 1, 4) = <<255, 255, 255, 255>> /\ b[5] >= 128 THEN Uint32(SubSeq(b, 5, 8))
    ELSE OutOfRangeSec

-----------------------------------------------------------------------------
(* InstanceID methods (src/unnamed/part_002:147-333) *)

\* InstanceID.Scheme()
Scheme(iid) ==
    CASE iid.kind = "H" -> SchemeH
      [] iid.kind = "D" -> SchemeD
      [] iid.kind = "R" -> SchemeR

\* InstanceID.Bytes()
IIDBytes(iid) ==
    CASE iid.kind = "H" ->
            CopyInto(CopyInto(Zeros(8), 0, iid.MachineID), 6, PutUint(iid.ProcessID, 2))
      [] iid.kind = "D" -> CopyInto(Zeros(8), 0, iid.ContainerID)
      [] iid.kind = "R" -> iid.Random

\* ParseInstanceID(b), its result allocated as number ptr
ParseInstanceID(b, ptr) ==
    IF Len(b) # 9 THEN [iid |-> Nil, err |-> "expected 9 bytes"]
    ELSE CASE b[1] = SchemeH ->
                [iid |-> HardwareID(ptr, Slice(b, 1, 7), BigEndian(Slice(b, 7, 9))),
                 err |-> ""]
           [] b[1] = SchemeD -> [iid |-> DockerID(ptr, Slice(b, 1, 9)), err |-> ""]
           [] b[1] = SchemeR -> [iid |-> RandomID(ptr, Slice(b, 1, 9)), err |-> ""]
           [] OTHER -> [iid |-> Nil, err |-> "unknown node id"]

-----------------------------------------------------------------------------
(* The base-62 codec *)

decodedLen == 21
encodedLen == 29
offsetUppercase == 10
offsetLowercase == 36
srcBase == 62
\* 2^16: a uint64 of the decoder is kept as 16-bit limbs
Limb == 65536

\* base62Characters[d]
Base62Char(d) ==
    IF d < offsetUppercase THEN Char0 + d
    ELSE IF d < offsetLowercase THEN CharA + (d - offsetUppercase)
    ELSE Chara + (d - offsetLowercase)

\* base62Value with the lower-case letters one digit too low
base62ValueLowercaseOffByOne(digit) ==
    IF digit >= Char0 /\ digit <= Char9 THEN digit - Char0
    ELSE IF digit >= CharA /\ digit <= CharZ THEN offsetUppercase + (digit - CharA)
    ELSE (offsetLowercase - 1 + ((digit - Chara) % 256)) % 256

\* base62Value (src/id_test.go:328-337), in byte arithmetic
base62Value(digit) ==
    IF digit >= Char0 /\ digit <= Char9 THEN digit - Char0
    ELSE IF digit >= CharA /\ digit <= CharZ THEN offsetUppercase + (digit - CharA)
    ELSE (offsetLowercase + ((digit - Chara) % 256)) % 256

\* the inner loop of fastDecodeBase62 (src/id_test.go:385-393): one long
\* division of the digits bp by dstBase = 2^32.  The remainder is hi*2^16 + lo.
RECURSIVE DivideByDstBase(_, _, _, _, _)
DivideByDstBase(bp, k, hi, lo, quotient) ==
    IF k > Len(bp) THEN [quotient |-> quotient, hi |-> hi, lo |-> lo]
    ELSE LET a == bp[k] + lo * srcBase
             b == hi * srcBase + (a \div Limb)
             digit == b \div Limb
         IN  DivideByDstBase(bp, k + 1, b % Limb, a % Limb,
                 IF Len(quotient) # 0 \/ digit # 0
                 THEN Append(quotient, digit % 256) ELSE quotient)

\* a decoder that leaves the bytes before its first chunk as they were
ZeroPadNothing(dst, n) == dst

\* copy(dst[:n], zero[:]) (src/id_test.go:407-408)
ZeroPad(dst, n) == CopyInto(dst, 0, Zeros(n))

\* the outer loop of fastDecodeBase62 (src/id_test.go:381-409)
RECURSIVE DecodeLoop(_, _, _)
DecodeLoop(bp, n, dst) ==
    IF Len(bp) = 0 THEN [err |-> "", dst |-> ZeroPad(dst, n)]
    ELSE LET r == DivideByDstBase(bp, 1, 0, 0, <<>>)
         IN  IF n < 4 THEN [err |-> "output buffer too short", dst |-> dst]
             ELSE DecodeLoop(r.quotient, n - 4,
                     CopyInto(dst, n - 4,
                         <<r.hi \div 256, r.hi % 256, r.lo \div 256, r.lo % 256>>))

\* fastDecodeBase62(dst, src) (src/id_test.go:339-410)
fastDecodeBase62(dst, src) ==
    DecodeLoop([k \in 1..encodedLen |-> base62Value(src[k])], Len(dst), dst)

\* one long division of the big-endian bytes x by 62
RECURSIVE DivideBySrcBase(_, _, _, _)
DivideBySrcBase(x, k, rem, quotient) ==
    IF k > Len(x) THEN [quotient |-> quotient, rem |-> rem]
    ELSE LET value == rem * 256 + x[k]
             digit == value \div srcBase
         IN  DivideBySrcBase(x, k + 1, value % srcBase,
                 IF Len(quotient) # 0 \/ digit # 0
                 THEN Append(quotient, digit) ELSE quotient)

\* the base-62 digits of the big-endian bytes x, most significant first
RECURSIVE Base62Digits(_, _)
Base62Digits(x, acc) ==
    IF Len(x) = 0 THEN acc
    ELSE LET r == DivideBySrcBase(x, 1, 0, <<>>)
         IN  Base62Digits(r.quotient, <<Base62Char(r.rem)>> \o acc)

\* the number of leading zero bytes of x
RECURSIVE LeadingZeros(_)
LeadingZeros(x) ==
    IF Len(x) = 0 \/ x[1] # 0 THEN 0 ELSE 1 + LeadingZeros(Tail(x))

\* the number of characters basex.Base62.Encode writes for x
basexEncodedLen(x) ==
    LET z == LeadingZeros(x)
    IN  z + Len(Base62Digits(SubSeq(x, z + 1, Len(x)), <<>>))

\* basex.Base62.Encode(y, x) (called at src/id.go:235): one '0' for every
\* leading zero byte of x, then the base-62 digits of x, written from y[0]
basexEncode(y, x) ==
    LET z == LeadingZeros(x)
    IN  CopyInto(y, 0, [k \in 1..z |-> Char0] \o Base62Digits(SubSeq(x, z + 1, Len(x)), <<>>))

-----------------------------------------------------------------------------
(* ID: Parse, splitPrefixID, Equal, Bytes (src/id.go) *)

\* splitPrefixID with the first '_' taken for the body's separator
splitAtFirstUnderscore(s) ==
    LET i == IndexByte(s, Underscore)
    IN  IF i < 0 THEN [environment |-> EmptyText, resource |-> EmptyText, id |-> s]
        ELSE [environment |-> EmptyText, resource |-> Slice(s, 0, i),
              id |-> Slice(s, i + 1, Len(s))]

\* splitPrefixID (src/id.go:69-91)
splitPrefixID(s) ==
    LET i == LastIndexByte(s, Underscore)
        j == IndexByte(Slice(s, 0, i), Underscore)
    IN  IF i < 0 THEN [environment |-> EmptyText, resource |-> EmptyText, id |-> s]
        ELSE IF j > -1
        THEN [environment |-> Slice(s, 0, j), resource |-> Slice(s, j + 1, i),
              id |-> Slice(s, i + 1, Len(s))]
        ELSE [environment |-> EmptyText, resource |-> Slice(s, 0, i),
              id |-> Slice(s, i + 1, Len(s))]

\* Parse (src/id.go:40-67); an InstanceID it allocates gets the number ptr
Parse(src, ptr) ==
    LET sp == splitPrefixID(src)
        env == IF sp.environment = EmptyText THEN Production ELSE sp.environment
        id0 == MkID(env, sp.resource, ZeroTime, Nil, 0)
        body == sp.id
    IN  IF Len(body) < encodedLen THEN [id |-> id0, err |-> "ksuid too short"]
        ELSE IF Len(body) > encodedLen THEN [id |-> id0, err |-> "ksuid too long"]
        ELSE LET d == fastDecodeBase62(Zeros(decodedLen), body)
             IN  IF d.err # "" THEN [id |-> id0, err |-> "invalid base62: " \o d.err]
                 ELSE LET pi == ParseInstanceID(Slice(d.dst, 8, 17), ptr)
                      IN  [id |-> MkID(env, sp.resource,
                                       Time(Int64(Slice(d.dst, 0, 8)), 0),
                                       pi.iid, Uint32(Slice(d.dst, 17, 21))),
                           err |-> pi.err]

\* Equal without the test for a nil InstanceID
EqualWithoutNilTest(a, x) ==
    /\ a.Environment = x.Environment /\ a.Resource = x.Resource
    /\ (a.InstanceID = Nil) = (x.InstanceID = Nil)
    /\ (a.InstanceID # Nil /\ x.InstanceID # Nil) =>
          (Scheme(a.InstanceID) = Scheme(x.InstanceID)
           /\ IIDBytes(a.InstanceID) = IIDBytes(x.InstanceID))
    /\ TimeEqual(a.Timestamp, x.Timestamp) /\ a.SequenceID = x.SequenceID

\* ID.Equal (src/id.go:101-110)
Equal(a, x) ==
    IF a.InstanceID = Nil \/ x.InstanceID = Nil THEN FALSE
    ELSE /\ a.Environment = x.Environment /\ a.Resource = x.Resource
         /\ Scheme(a.InstanceID) = Scheme(x.InstanceID)
         /\ IIDBytes(a.InstanceID) = IIDBytes(x.InstanceID)
         /\ TimeEqual(a.Timestamp, x.Timestamp) /\ a.SequenceID = x.SequenceID

\* prefixLen that counts the environment whenever it is set
prefixLenCountingProduction(a) ==
    IF a.Resource # EmptyText
    THEN Len(a.Resource) + 1
         + (IF a.Environment # EmptyText THEN Len(a.Environment) + 1 ELSE 0)
    ELSE 0

\* ID.prefixLen (src/id.go:145-155)
prefixLen(a) ==
    IF a.Resource # EmptyText
    THEN Len(a.Resource) + 1
         + (IF a.Environment # EmptyText /\ a.Environment # Production
            THEN Len(a.Environment) + 1 ELSE 0)
    ELSE 0

\* the 21 bytes x that Bytes encodes (src/id.go:226-233)
Payload(a) ==
    CopyInto(
        CopyInto(
            SetByte(CopyInto(Zeros(decodedLen), 0, PutUint(Unix(a.Timestamp), 8)),
                    8, Scheme(a.InstanceID)),
            9, IIDBytes(a.InstanceID)),
        17, PutUint(a.SequenceID, 4))

\* ID.Bytes (src/id.go:210-242), for an ID whose InstanceID is not nil
Bytes(a) ==
    LET pl == prefixLen(a)
        dst0 == Zeros(pl + encodedLen)
        withEnv == a.Environment # EmptyText /\ a.Environment # Production
        offset == IF withEnv THEN Len(a.Environment) + 1 ELSE 0
        dst1 == IF a.Resource = EmptyText THEN dst0
                ELSE LET e == IF withEnv
                              THEN SetByte(CopyInto(dst0, 0, a.Environment),
                                           Len(a.Environment), Underscore)
                              ELSE dst0
                     IN  SetByte(CopyInto(e, offset, a.Resource),
                                 offset + Len(a.Resource), Underscore)
        y == basexEncode(Zeros(encodedLen), Payload(a))
    IN  SetByte(SetByte(CopyInto(dst1, pl + 2, y), pl, Char0), pl + 1, Char0)

-----------------------------------------------------------------------------
(* Calls of the ID functions *)

\* length of the short texts given to splitPrefixID and Parse
MaxTextLen == 5

NoResult == [none |-> TRUE]

\* the number of the InstanceID Parse allocates (src/unnamed/part_002:219)
ParsedPtr == 100

\* "a_b"
ResWithUnderscore == <<97, 95, 98>>

\* hardware ids: the test vector's, the same again in a second allocation,
\* and one with an 8-byte hardware address
HwA == HardwareID(1, TestMachine, TestPid)
HwA2 == HardwareID(2, TestMachine, TestPid)
HwLong == HardwareID(3, <<2, 4, 6, 8, 10, 12, 14, 16>>, 7)
\* a container id longer than the 8 bytes Bytes() keeps
DockerA == DockerID(4, <<171, 205, 239, 1, 35, 69, 103, 137, 154, 188>>)
RandomA == RandomID(5, <<0, 255, 3, 4, 5, 6, 7, 8>>)

\* the IDs Bytes is called on
ByteEnvs == {EmptyText, Production, EnvTest}
ByteResources == {EmptyText, ResUser, ResWithUnderscore}
ByteTimes ==
    {Time(BaseSec, 0), Time(BaseSec, 1), Time(1, 0),
     Time(133505027, 0), Time(133505028, 0), Time(2147483647, 0)}
ByteIIDs == {Nil, HwA, HwLong, DockerA, RandomA}
ByteSeqs == {0, 1, 2147483647}
ByteIDs ==
    { MkID(e, r, t, i, q) :
        e \in ByteEnvs, r \in ByteResources, t \in ByteTimes, i \in ByteIIDs, q \in ByteSeqs }

\* the IDs Equal is called on
EqualIDs ==
    { MkID(e, r, t, i, q) :
        e \in {EmptyText, Production}, r \in {EmptyText, ResUser},
        t \in {Time(BaseSec, 0), Time(BaseSec, 1), Time(BaseSec + 1, 0)},
        i \in {Nil, HwA, HwA2, RandomA}, q \in {0, 1} }

\* every text of length n over the alphabet
RECURSIVE TextsOfLen(_, _)
TextsOfLen(alphabet, n) ==
    IF n = 0 THEN {EmptyText}
    ELSE { Append(t, c) : t \in TextsOfLen(alphabet, n - 1), c \in alphabet }

ShortTexts == UNION { TextsOfLen({Underscore, Chara, Char0}, n) : n \in 0..MaxTextLen }

\* "000000BPG6Lks9tQoAiJYrBRSXPX6" (src/id_test.go:53)
TestBody ==
    <<48, 48, 48, 48, 48, 48, 66, 80, 71, 54, 76, 107, 115, 57, 116, 81, 111, 65, 105,
      74, 89, 114, 66, 82, 83, 88, 80, 88, 54>>
\* "AAAAAAAAAAAAAAAAAAAAAAAAA//AA" (src/id_test.go:51)
TestInvalidBody ==
    [k \in 1..encodedLen |-> IF k \in {26, 27} THEN 47 ELSE CharA]

\* bytes that are no base-62 character: NUL, space, '-', '/', ':', '@', '[',
\* '`', '{', 0xFF
InvalidChars == {0, 32, 45, 47, 58, 64, 91, 96, 123, 255}

IsBase62(c) ==
    \/ (c >= Char0 /\ c <= Char9)
    \/ (c >= CharA /\ c <= CharZ)
    \/ (c >= Chara /\ c <= Charz)

\* bodies of the right length: the test vectors, and the valid one with one
\* character replaced by an invalid one
Bodies ==
    {TestBody, TestInvalidBody}
    \cup { [TestBody EXCEPT ![k] = c] : k \in {1, 7, 15, 27, 29}, c \in InvalidChars }

Prefixes == {EmptyText, ResUser \o <<Underscore>>, EnvTest \o <<Underscore>> \o ResUser \o <<Underscore>>}

ParseTexts ==
    ShortTexts
    \cup { p \o b : p \in Prefixes, b \in Bodies }
    \cup { p \o SubSeq(TestBody, 1, encodedLen - 1) : p \in Prefixes }
    \cup { p \o TestBody \o <<Char0>> : p \in Prefixes }

\* a number as 29 base-62 characters, given by its big-endian bytes
Encode29(x) ==
    LET d == Base62Digits(x, <<>>)
    IN  [k \in 1..(encodedLen - Len(d)) |-> Char0] \o d

\* "00000000000000000000000000000" (zeroString, src/id_test.go:322)
zeroString == [k \in 1..encodedLen |-> Char0]

\* the texts fastDecodeBase62 is called on: zero, the test vector, both with
\* one character replaced, the largest text, and the numbers next to 2^160
\* and 2^168
DecodeTexts ==
    {zeroString, TestBody, [k \in 1..encodedLen |-> Charz]}
    \cup { [zeroString EXCEPT ![k] = c] : k \in 1..encodedLen, c \in {Char0 + 1, CharZ, Charz} }
    \cup { [TestBody EXCEPT ![k] = c] : k \in 1..encodedLen, c \in {Char9, CharA, Chara} }
    \cup { Encode29(x) : x \in { [k \in 1..(decodedLen - 1) |-> 255],
                                [k \in 1..decodedLen |-> IF k = 1 THEN 1 ELSE 0],
                                [k \in 1..decodedLen |-> 255],
                                [k \in 1..(decodedLen + 1) |-> IF k = 1 THEN 1 ELSE 0] } }

\* the buffers it is given: a fresh one (src/id.go:54) and one in use
DecodeBuffers == {Zeros(decodedLen), [k \in 1..decodedLen |-> 255]}

IDInit ==
    /\ step = 0
    /\ ret = NoResult
    /\ \/ /\ fn = "Equal" /\ argA \in EqualIDs /\ argB \in EqualIDs
          /\ text = EmptyText /\ buf = EmptyText
       \/ /\ fn = "RoundTrip" /\ argA \in ByteIDs /\ argB = ZeroID
          /\ text = EmptyText /\ buf = EmptyText
       \/ /\ fn = "Parse" /\ argA = ZeroID /\ argB = ZeroID
          /\ text \in ParseTexts /\ buf = EmptyText
       \/ /\ fn = "Split" /\ argA = ZeroID /\ argB = ZeroID
          /\ text \in ParseTexts /\ buf = EmptyText
       \/ /\ fn = "Decode" /\ argA = ZeroID /\ argB = ZeroID
          /\ text \in DecodeTexts /\ buf \in DecodeBuffers

\* id.Equal(x)
CallEqual ==
    /\ fn = "Equal" /\ step = 0
    /\ ret' = [equal |-> Equal(argA, argB)]
    /\ step' = 1
    /\ UNCHANGED <<fn, argA, argB, text, buf>>
    /\ UNCHANGED <<nodeVars, setVars>>

\* id.Bytes(); a nil InstanceID makes it panic (src/id.go:226)
CallBytes ==
    /\ fn = "RoundTrip" /\ step = 0
    /\ IF argA.InstanceID = Nil
       THEN ret' = [panic |-> TRUE] /\ text' = text
       ELSE ret' = [panic |-> FALSE] /\ text' = Bytes(argA)
    /\ step' = 1
    /\ UNCHANGED <<fn, argA, argB, buf>>
    /\ UNCHANGED <<nodeVars, setVars>>

\* Parse(src), on a given text or on the text Bytes returned
CallParse ==
    /\ \/ fn = "Parse" /\ step = 0
       \/ fn = "RoundTrip" /\ step = 1 /\ ~ret.panic
    /\ ret' = Parse(text, ParsedPtr)
    /\ step' = step + 1
    /\ UNCHANGED <<fn, argA, argB, text, buf>>
    /\ UNCHANGED <<nodeVars, setVars>>

\* splitPrefixID(s)
CallSplit ==
    /\ fn = "Split" /\ step = 0
    /\ ret' = splitPrefixID(text)
    /\ step' = 1
    /\ UNCHANGED <<fn, argA, argB, text, buf>>
    /\ UNCHANGED <<nodeVars, setVars>>

\* fastDecodeBase62(dst, src)
CallDecode ==
    /\ fn = "Decode" /\ step = 0
    /\ ret' = fastDecodeBase62(buf, text)
    /\ step' = 1
    /\ UNCHANGED <<fn, argA, argB, text, buf>>
    /\ UNCHANGED <<nodeVars, setVars>>

-----------------------------------------------------------------------------
(* Set (src/unnamed/part_002:7-87) *)

\* Set operations in one behaviour
MaxSetOps == 2
\* length of the array given to NewSet
MaxNewSet == 1
\* Next calls on one Iterator
MaxNexts == 3

\* a generated ID, the same ID parsed back from its text (an equal InstanceID
\* in another allocation), the next ID of the same second, and ID{}
IdA == MkID(Production, ResUser, Time(BaseSec, 0), HwA, 0)
IdA2 == MkID(Production, ResUser, Time(BaseSec, 0), HwA2, 0)
IdB == MkID(Production, ResUser, Time(BaseSec, 0), HwA, 1)
SetIDs == {IdA, IdA2, IdB, ZeroID}

\* the elements of a sequence
Range(q) == { q[k] : k \in 1..Len(q) }

\* every sequence over S of length at most n
RECURSIVE SeqsUpTo(_, _)
SeqsUpTo(S, n) ==
    IF n = 0 THEN {<<>>}
    ELSE SeqsUpTo(S, n - 1)
         \cup { Append(q, x) : q \in { r \in SeqsUpTo(S, n - 1) : Len(r) = n - 1 }, x \in S }

\* q without its element at position k (1-based)
RemoveAt(q, k) == SubSeq(q, 1, k - 1) \o SubSeq(q, k + 1, Len(q))

\* no Iterator yet: the Iterator struct (lines 90-95) with i.v and i.i, whether
\* Iter() has built it, the number of Next calls, the last return value of
\* Next, the values Next has yielded, and whether an Append or a Delete ran
\* since Iter()
NoIterator ==
    [open |-> FALSE, i |-> 0, v |-> ZeroID, nexts |-> 0, more |-> FALSE,
     yielded |-> <<>>, mutated |-> FALSE]

\* every open Iterator has seen a mutation of the Set
MarkMutated(its) ==
    [q \in Procs |-> IF its[q].open THEN [its[q] EXCEPT !.mutated = TRUE] ELSE its[q]]

\* NewSet(x...) (lines 20-31)
SetInit ==
    /\ newSetArg \in SeqsUpTo(SetIDs, MaxNewSet)
    /\ items = newSetArg
    /\ lookup = Range(newSetArg)
    /\ smu = [w |-> NoProc, r |-> {}]
    /\ spc = [p \in Procs |-> "idle"]
    /\ sarg = [p \in Procs |-> ZeroID]
    /\ sret = [p \in Procs |-> NoResult]
    /\ sbefore = [p \in Procs |-> <<>>]
    /\ sops = 0
    /\ lbefore = [p \in Procs |-> {}]
    /\ iter = [p \in Procs |-> NoIterator]
    /\ lenRace = FALSE

\* no Set
SetIdle ==
    /\ newSetArg = <<>>
    /\ items = <<>>
    /\ lookup = {}
    /\ smu = [w |-> NoProc, r |-> {}]
    /\ spc = [p \in Procs |-> "idle"]
    /\ sarg = [p \in Procs |-> ZeroID]
    /\ sret = [p \in Procs |-> NoResult]
    /\ sbefore = [p \in Procs |-> <<>>]
    /\ sops = 0
    /\ lbefore = [p \in Procs |-> {}]
    /\ iter = [p \in Procs |-> NoIterator]
    /\ lenRace = FALSE

\* s.mu.Lock() can return
CanLock == smu.w = NoProc /\ smu.r = {}
\* s.mu.RLock() can return
CanRLock == smu.w = NoProc

\* Append, line 38: s.mu.Lock()
AppendLock(p, x) ==
    /\ spc[p] = "idle"
    /\ sops < MaxSetOps
    /\ CanLock
    /\ smu' = [smu EXCEPT !.w = p]
    /\ spc' = [spc EXCEPT ![p] = "append"]
    /\ sarg' = [sarg EXCEPT ![p] = x]
    /\ sops' = sops + 1
    /\ UNCHANGED <<items, lookup, sret, sbefore, newSetArg, lbefore, iter, lenRace>>
    /\ UNCHANGED <<nodeVars, idVars>>

\* Append, lines 40-44
AppendBody(p) ==
    /\ spc[p] = "append"
    /\ IF sarg[p] \notin lookup
       THEN /\ lookup' = lookup \cup {sarg[p]}
            /\ items' = Append(items, sarg[p])
            /\ sret' = [sret EXCEPT ![p] = [appended |-> TRUE]]
       ELSE /\ UNCHANGED <<lookup, items>>
            /\ sret' = [sret EXCEPT ![p] = [appended |-> FALSE]]
    /\ sbefore' = [sbefore EXCEPT ![p] = items]
    /\ iter' = MarkMutated(iter)
    /\ spc' = [spc EXCEPT ![p] = "appended"]
    /\ UNCHANGED <<smu, sarg, sops, newSetArg, lbefore, lenRace>>
    /\ UNCHANGED <<nodeVars, idVars>>

\* Append, lines 46-47: s.mu.Unlock(); return
AppendUnlock(p) ==
    /\ spc[p] = "appended"
    /\ smu' = [smu EXCEPT !.w = NoProc]
    /\ spc' = [spc EXCEPT ![p] = "idle"]
    /\ sarg' = [sarg EXCEPT ![p] = ZeroID]
    /\ sbefore' = [sbefore EXCEPT ![p] = <<>>]
    /\ UNCHANGED <<items, lookup, sret, sops, newSetArg, lbefore, iter, lenRace>>
    /\ UNCHANGED <<nodeVars, idVars>>

\* Delete, line 73: s.mu.Lock()
DeleteLock(p, x) ==
    /\ spc[p] = "idle"
    /\ sops < MaxSetOps
    /\ CanLock
    /\ smu' = [smu EXCEPT !.w = p]
    /\ spc' = [spc EXCEPT ![p] = "delete"]
    /\ sarg' = [sarg EXCEPT ![p] = x]
    /\ sops' = sops + 1
    /\ UNCHANGED <<items, lookup, sret, sbefore, newSetArg, lbefore, iter, lenRace>>
    /\ UNCHANGED <<nodeVars, idVars>>

\* Delete, lines 75-82: items without its first element Equal to x
DeleteFirstEqual(q, x) ==
    IF \E k \in 1..Len(q) : Equal(q[k], x)
    THEN RemoveAt(q, CHOOSE k \in 1..Len(q) :
                        Equal(q[k], x) /\ \A j \in 1..(k - 1) : ~Equal(q[j], x))
    ELSE q

\* Delete, lines 75-84
DeleteBody(p) ==
    /\ spc[p] = "delete"
    /\ items' = DeleteFirstEqual(items, sarg[p])
    /\ lookup' = lookup \ {sarg[p]}
    /\ sbefore' = [sbefore EXCEPT ![p] = items]
    /\ lbefore' = [lbefore EXCEPT ![p] = lookup]
    /\ iter' = MarkMutated(iter)
    /\ spc' = [spc EXCEPT ![p] = "deleted"]
    /\ UNCHANGED <<smu, sarg, sret, sops, newSetArg, lenRace>>
    /\ UNCHANGED <<nodeVars, idVars>>

\* Delete, line 86: s.mu.Unlock()
DeleteUnlock(p) ==
    /\ spc[p] = "deleted"
    /\ smu' = [smu EXCEPT !.w = NoProc]
    /\ spc' = [spc EXCEPT ![p] = "idle"]
    /\ sarg' = [sarg EXCEPT ![p] = ZeroID]
    /\ sbefore' = [sbefore EXCEPT ![p] = <<>>]
    /\ lbefore' = [lbefore EXCEPT ![p] = {}]
    /\ UNCHANGED <<items, lookup, sret, sops, newSetArg, iter, lenRace>>
    /\ UNCHANGED <<nodeVars, idVars>>

\* Exists, line 61: s.mu.RLock()
ExistsRLock(p, x) ==
    /\ spc[p] = "idle"
    /\ sops < MaxSetOps
    /\ CanRLock
    /\ smu' = [smu EXCEPT !.r = @ \cup {p}]
    /\ spc' = [spc EXCEPT ![p] = "exists"]
    /\ sarg' = [sarg EXCEPT ![p] = x]
    /\ sops' = sops + 1
    /\ UNCHANGED <<items, lookup, sret, sbefore, newSetArg, lbefore, iter, lenRace>>
    /\ UNCHANGED <<nodeVars, idVars>>

\* Exists, lines 63-66: the lookup, s.mu.RUnlock(), return
ExistsRUnlock(p) ==
    /\ spc[p] = "exists"
    /\ sret' = [sret EXCEPT ![p] = [found |-> sarg[p] \in lookup]]
    /\ smu' = [smu EXCEPT !.r = @ \ {p}]
    /\ spc' = [spc EXCEPT ![p] = "idle"]
    /\ sarg' = [sarg EXCEPT ![p] = ZeroID]
    /\ UNCHANGED <<items, lookup, sbefore, sops, newSetArg, lbefore, iter, lenRace>>
    /\ UNCHANGED <<nodeVars, idVars>>

\* Len (lines 53-55): reads len(s.items), taking no lock.  A writer may hold
\* s.mu at that moment; the unsynchronised read then returns the length
\* before or after the writer's change, which are the lengths this step reads
\* when it comes before or after AppendBody or DeleteBody.
SetLen(p) ==
    /\ spc[p] = "idle"
    /\ sops < MaxSetOps
    /\ sret' = [sret EXCEPT ![p] = [len |-> Len(items)]]
    /\ lenRace' = (lenRace \/ smu.w # NoProc)
    /\ sops' = sops + 1
    /\ UNCHANGED <<items, lookup, smu, spc, sarg, sbefore, newSetArg, lbefore, iter>>
    /\ UNCHANGED <<nodeVars, idVars>>

\* Iter (lines 123-127): a new Iterator on the Set, taking no lock
SetIter(p) ==
    /\ spc[p] = "idle"
    /\ sops < MaxSetOps
    /\ iter' = [iter EXCEPT ![p] = [NoIterator EXCEPT !.open = TRUE]]
    /\ sops' = sops + 1
    /\ UNCHANGED <<items, lookup, smu, spc, sarg, sret, sbefore, newSetArg, lbefore, lenRace>>
    /\ UNCHANGED <<nodeVars, idVars>>

\* Iterator.Next, line 100: i.s.mu.RLock()
NextRLock(p) ==
    /\ spc[p] = "idle"
    /\ iter[p].open
    /\ iter[p].nexts < MaxNexts
    /\ CanRLock
    /\ smu' = [smu EXCEPT !.r = @ \cup {p}]
    /\ spc' = [spc EXCEPT ![p] = "next"]
    /\ UNCHANGED <<items, lookup, sarg, sret, sbefore, sops, newSetArg, lbefore, iter, lenRace>>
    /\ UNCHANGED <<nodeVars, idVars>>

\* a Next that stops before the last element
ExhaustedOneEarly(i, q) == i + 1 >= Len(q)

\* Iterator.Next, line 102: i.i >= len(i.s.items)
Exhausted(i, q) == i >= Len(q)

\* Iterator.Next, lines 102-113: the step, i.s.mu.RUnlock(), return
NextRUnlock(p) ==
    /\ spc[p] = "next"
    /\ IF Exhausted(iter[p].i, items)
       THEN iter' = [iter EXCEPT ![p] = [@ EXCEPT !.v = ZeroID, !.more = FALSE,
                                                  !.nexts = @ + 1]]
       ELSE iter' = [iter EXCEPT ![p] = [@ EXCEPT !.v = items[iter[p].i + 1],
                                                  !.i = @ + 1, !.more = TRUE,
                                                  !.nexts = @ + 1,
                                                  !.yielded = Append(@, items[iter[p].i + 1])]]
    /\ sret' = [sret EXCEPT ![p] = [more |-> iter'[p].more]]
    /\ smu' = [smu EXCEPT !.r = @ \ {p}]
    /\ spc' = [spc EXCEPT ![p] = "idle"]
    /\ UNCHANGED <<items, lookup, sarg, sbefore, sops, newSetArg, lbefore, lenRace>>
    /\ UNCHANGED <<nodeVars, idVars>>

-----------------------------------------------------------------------------
(* Node.Generate (src/unnamed/part_001:53-74) *)

NoCall == [read |-> ZeroTime, ts |-> ZeroTime, seq |-> 0, valid |-> FALSE]

\* the generator's resource argument
GenResources == {ResUser}

\* SetEnvironment and SetInstanceID calls in one behaviour; they count as
\* calls for MaxCalls
MaxOverrides == 2

\* "dev"
EnvDev == <<100, 101, 118>>
\* the arguments of SetEnvironment and of SetInstanceID
OverrideEnvs == {EnvDev}
OverrideIIDs == {RandomA}

\* the callers, other than p, that are in the middle of the store `at`
Storing(at, p) == { q \in Procs \ {p} : pc[q] = at }

\* a byte of the memory behind a string's last character
UnknownByte == 0

\* a string header read half old and half new: the bytes of a with the length of b
TornString(a, b) == [k \in 1..Len(b) |-> IF k <= Len(a) THEN a[k] ELSE UnknownByte]

\* an interface value read half old and half new: the type word of a with the
\* data word of b
TypeWord(x) == IF x.kind = "torn" THEN x.type ELSE x.kind
DataWord(x) == IF x.kind = "torn" THEN x.data ELSE IF x.kind = "nil" THEN 0 ELSE x.ptr
TornInterface(a, b) == [kind |-> "torn", type |-> TypeWord(a), data |-> DataWord(b)]

\* what an unsynchronised load of n.Environment can return: the field, or,
\* while a store to it is under way, the old value, the new one or a mix
LoadEnvironment(p) ==
    {nodeEnv} \cup UNION { {warg[q], TornString(nodeEnv, warg[q]), TornString(warg[q], nodeEnv)} :
                            q \in Storing("setenv", p) }

\* the same for n.InstanceID
LoadInstanceID(p) ==
    {nodeIID} \cup UNION { {warg[q], TornInterface(nodeIID, warg[q]), TornInterface(warg[q], nodeIID)} :
                            q \in Storing("setiid", p) }

\* lines 54-55: n.Environment is read before the lock is taken
GenerateEnter(p, resource) ==
    /\ pc[p] = "idle"
    /\ calls + overrides < MaxCalls
    /\ \E e \in LoadEnvironment(p) :
          id' = [id EXCEPT ![p] = MkID(e, resource, ZeroTime, Nil, 0)]
    /\ fieldRace' = (fieldRace \/ Storing("setenv", p) # {})
    /\ pc' = [pc EXCEPT ![p] = "iid"]
    /\ calls' = calls + 1
    /\ UNCHANGED <<nodeEnv, nodeIID, ts, seq, mu, prev, last, issued, dup, monotone, warg, overrides>>
    /\ UNCHANGED <<idVars, setVars>>

\* line 56: n.InstanceID is read before the lock is taken
GenerateInstanceID(p) ==
    /\ pc[p] = "iid"
    /\ \E i \in LoadInstanceID(p) :
          id' = [id EXCEPT ![p] = [@ EXCEPT !.InstanceID = i]]
    /\ fieldRace' = (fieldRace \/ Storing("setiid", p) # {})
    /\ pc' = [pc EXCEPT ![p] = "lock"]
    /\ UNCHANGED <<nodeEnv, nodeIID, ts, seq, mu, calls, prev, last, issued, dup, monotone,
                   warg, overrides>>
    /\ UNCHANGED <<idVars, setVars>>

\* SetEnvironment, line 79: the store to exportedNode.Environment begins; no
\* lock is taken
SetEnvironment(p, environment) ==
    /\ pc[p] = "idle"
    /\ overrides < MaxOverrides
    /\ calls + overrides < MaxCalls
    /\ warg' = [warg EXCEPT ![p] = environment]
    /\ pc' = [pc EXCEPT ![p] = "setenv"]
    /\ overrides' = overrides + 1
    /\ UNCHANGED <<nodeEnv, nodeIID, ts, seq, mu, id, calls, prev, last, issued, dup, monotone,
                   fieldRace>>
    /\ UNCHANGED <<idVars, setVars>>

\* SetEnvironment, lines 79-80: the store is complete; a store racing with
\* another one may leave a mix of the two
SetEnvironmentDone(p) ==
    /\ pc[p] = "setenv"
    /\ nodeEnv' \in {warg[p]} \cup UNION { {TornString(warg[p], warg[q]), TornString(warg[q], warg[p])} :
                                            q \in Storing("setenv", p) }
    /\ warg' = [warg EXCEPT ![p] = NoResult]
    /\ pc' = [pc EXCEPT ![p] = "idle"]
    /\ UNCHANGED <<nodeIID, ts, seq, mu, id, calls, prev, last, issued, dup, monotone,
                   overrides, fieldRace>>
    /\ UNCHANGED <<idVars, setVars>>

\* SetInstanceID, line 85: the store to exportedNode.InstanceID begins; no
\* lock is taken
SetInstanceID(p, instanceID) ==
    /\ pc[p] = "idle"
    /\ overrides < MaxOverrides
    /\ calls + overrides < MaxCalls
    /\ warg' = [warg EXCEPT ![p] = instanceID]
    /\ pc' = [pc EXCEPT ![p] = "setiid"]
    /\ overrides' = overrides + 1
    /\ UNCHANGED <<nodeEnv, nodeIID, ts, seq, mu, id, calls, prev, last, issued, dup, monotone,
                   fieldRace>>
    /\ UNCHANGED <<idVars, setVars>>

\* SetInstanceID, lines 85-86: the store is complete
SetInstanceIDDone(p) ==
    /\ pc[p] = "setiid"
    /\ nodeIID' \in {warg[p]} \cup UNION { {TornInterface(warg[p], warg[q]), TornInterface(warg[q], warg[p])} :
                                            q \in Storing("setiid", p) }
    /\ warg' = [warg EXCEPT ![p] = NoResult]
    /\ pc' = [pc EXCEPT ![p] = "idle"]
    /\ UNCHANGED <<nodeEnv, ts, seq, mu, id, calls, prev, last, issued, dup, monotone,
                   overrides, fieldRace>>
    /\ UNCHANGED <<idVars, setVars>>

\* line 58: n.mu.Lock()
GenerateLock(p) ==
    /\ pc[p] = "lock"
    /\ mu = NoProc
    /\ mu' = p
    /\ pc' = [pc EXCEPT ![p] = "stamp"]
    /\ UNCHANGED <<nodeEnv, nodeIID, ts, seq, id, calls, prev, last, issued, dup, monotone, warg, overrides, fieldRace>>
    /\ UNCHANGED <<idVars, setVars>>

\* t.Sub(u) >= 1*time.Second
SubGeSecond(t, u) ==
    LET ds == t.sec - u.sec
    IN  ds > 1 \/ (ds = 1 /\ t.nsec >= u.nsec)

\* a Generate that starts a new sequence as soon as a full second has passed
ResetsSeqAtOneSecond(now, nts) == SubGeSecond(now, nts)

\* line 61: the branch taken for the clock reading now
ResetsSeq(now, nts) == SubGtSecond(now, nts)

\* lines 60-69, with now the value of time.Now().UTC()
GenerateStamp(p, now) ==
    /\ pc[p] = "stamp"
    /\ mu = p
    /\ IF ResetsSeq(now, ts)
       THEN /\ ts' = now
            /\ seq' = 0
       ELSE /\ ts' = ts
            /\ seq' = (seq + 1) % SeqMod
    /\ id' = [id EXCEPT ![p] = [@ EXCEPT !.Timestamp = ts', !.SequenceID = seq']]
    /\ prev' = last
    /\ last' = [read |-> now, ts |-> ts', seq |-> seq', valid |-> TRUE]
    /\ dup' = (dup \/ <<Unix(ts'), seq'>> \in issued)
    /\ issued' = issued \cup {<<Unix(ts'), seq'>>}
    /\ monotone' = (monotone /\ (last.valid => TimeLeq(last.read, now)))
    /\ pc' = [pc EXCEPT ![p] = "unlock"]
    /\ UNCHANGED <<nodeEnv, nodeIID, mu, calls, warg, overrides, fieldRace>>
    /\ UNCHANGED <<idVars, setVars>>

\* lines 71-73: n.mu.Unlock(); return
GenerateUnlock(p) ==
    /\ pc[p] = "unlock"
    /\ mu = p
    /\ mu' = NoProc
    /\ pc' = [pc EXCEPT ![p] = "idle"]
    /\ UNCHANGED <<nodeEnv, nodeIID, ts, seq, id, calls, prev, last, issued, dup, monotone, warg, overrides, fieldRace>>
    /\ UNCHANGED <<idVars, setVars>>

\* NewNode (src/unnamed/part_001:44-50)
NodeInit ==
    /\ nodeEnv = Production
    /\ nodeIID = HardwareID(1, TestMachine, TestPid)
    /\ ts = ZeroTime
    /\ seq = 0
    /\ mu = NoProc
    /\ pc = [p \in Procs |-> "idle"]
    /\ id = [p \in Procs |-> ZeroID]
    /\ calls = 0
    /\ prev = NoCall
    /\ last = NoCall
    /\ issued = {}
    /\ dup = FALSE
    /\ monotone = TRUE
    /\ warg = [p \in Procs |-> NoResult]
    /\ overrides = 0
    /\ fieldRace = FALSE

\* no caller of the ID functions
IDIdle ==
    /\ fn = "none" /\ step = 0
    /\ argA = ZeroID /\ argB = ZeroID
    /\ text = EmptyText /\ ret = NoResult
    /\ buf = EmptyText

Init == NodeInit /\ IDIdle /\ SetIdle

Next ==
    \/ \E p \in Procs, r \in GenResources : GenerateEnter(p, r)
    \/ \E p \in Procs : GenerateInstanceID(p)
    \/ \E p \in Procs : GenerateLock(p)
    \/ \E p \in Procs, now \in ClockReadings : GenerateStamp(p, now)
    \/ \E p \in Procs : GenerateUnlock(p)

Spec == Init /\ [][Next]_vars

\* the exported Node (src/unnamed/part_001:8-26) with its overrides and the
\* exported Generate (lines 76-91)
NextExported ==
    \/ \E p \in Procs, r \in GenResources : GenerateEnter(p, r)
    \/ \E p \in Procs : GenerateInstanceID(p)
    \/ \E p \in Procs : GenerateLock(p)
    \/ \E p \in Procs, now \in ClockReadings : GenerateStamp(p, now)
    \/ \E p \in Procs : GenerateUnlock(p)
    \/ \E p \in Procs, e \in OverrideEnvs : SetEnvironment(p, e)
    \/ \E p \in Procs : SetEnvironmentDone(p)
    \/ \E p \in Procs, i \in OverrideIIDs : SetInstanceID(p, i)
    \/ \E p \in Procs : SetInstanceIDDone(p)
SpecExported == Init /\ [][NextExported]_vars

\* the ID functions, called on sample arguments
InitID == NodeInit /\ IDInit /\ SetIdle
NextID == CallEqual \/ CallBytes \/ CallParse \/ CallSplit \/ CallDecode
SpecID == InitID /\ [][NextID]_vars

\* a Set and its concurrent callers
InitSet == NodeInit /\ IDIdle /\ SetInit
NextSet ==
    \/ \E p \in Procs, x \in SetIDs : AppendLock(p, x)
    \/ \E p \in Procs : AppendBody(p)
    \/ \E p \in Procs : AppendUnlock(p)
    \/ \E p \in Procs, x \in SetIDs : DeleteLock(p, x)
    \/ \E p \in Procs : DeleteBody(p)
    \/ \E p \in Procs : DeleteUnlock(p)
    \/ \E p \in Procs, x \in SetIDs : ExistsRLock(p, x)
    \/ \E p \in Procs : ExistsRUnlock(p)
    \/ \E p \in Procs : SetLen(p)
    \/ \E p \in Procs : SetIter(p)
    \/ \E p \in Procs : NextRLock(p)
    \/ \E p \in Procs : NextRUnlock(p)
SpecSet == InitSet /\ [][NextSet]_vars

-----------------------------------------------------------------------------
(* Claims about Node.Generate *)

\* C1: no two Generate calls on one Node return the same (timestamp in whole
\* seconds, sequence) pair, whatever the interleaving and the clock readings.
C1_NoTwoCallsShareAPair == ~dup

\* C2: in the order the calls take the Node's lock, the (timestamp, sequence)
\* pairs returned never decrease lexicographically, and the recorded timestamp
\* never decreases.
C2_PairsNonDecreasing ==
    (prev.valid /\ last.valid) =>
        /\ TimeLeq(prev.ts, last.ts)
        /\ \/ Unix(prev.ts) < Unix(last.ts)
           \/ (Unix(prev.ts) = Unix(last.ts) /\ prev.seq <= last.seq)

\* C3 as stated, for a clock that never steps back: a call whose clock reading
\* lies in the same wall-clock second as the previous call's keeps the
\* timestamp and returns the previous sequence + 1; a call read more than one
\* second after the previous call returns sequence 0 and adopts the new second.
C3_SameSecondIncrements ==
    (prev.valid /\ last.valid /\ monotone) =>
        /\ Unix(last.read) = Unix(prev.read) =>
              (last.ts = prev.ts /\ last.seq = prev.seq + 1)
        /\ SubGtSecond(last.read, prev.read) =>
              (last.seq = 0 /\ Unix(last.ts) = Unix(last.read))

\* C3 amended: the comparison is with the Node's recorded timestamp, not with
\* the previous call.  A call whose clock reading is at most one second after
\* the recorded timestamp (so every reading in the recorded timestamp's own
\* wall-clock second) keeps the timestamp and returns the previous sequence
\* + 1 in the counter's width; a call read more than one second after the
\* recorded timestamp returns sequence 0 and adopts its clock reading.
C3_RecordedSecondIncrements ==
    (prev.valid /\ last.valid) =>
        /\ (TimeLeq(last.read, prev.ts) \/ Unix(last.read) = Unix(prev.ts)
               \/ (Unix(last.read) = Unix(prev.ts) + 1 /\ last.read.nsec <= prev.ts.nsec))
             => (last.ts = prev.ts /\ last.seq = (prev.seq + 1) % SeqMod)
        /\ (Unix(last.read) > Unix(prev.ts) + 1
               \/ (Unix(last.read) = Unix(prev.ts) + 1 /\ last.read.nsec > prev.ts.nsec))
             => (last.seq = 0 /\ last.ts = last.read)

\* a call read exactly one second after the recorded timestamp, in the next
\* wall-clock second, that kept the timestamp and incremented the sequence
C3_Witness ==
    /\ prev.valid /\ last.valid
    /\ Unix(last.read) = Unix(prev.ts) + 1
    /\ last.read.nsec = prev.ts.nsec
    /\ last.ts = prev.ts
    /\ last.seq = prev.seq + 1

-----------------------------------------------------------------------------
(* Claims about the ID functions *)

HasUnderscore(t) == \E k \in 1..Len(t) : t[k] = Underscore

ReadsBack(v) ==
    /\ v.InstanceID # Nil
    /\ v.Resource # EmptyText
    /\ ~HasUnderscore(v.Resource)
    /\ ~HasUnderscore(v.Environment)
    /\ basexEncodedLen(Payload(v)) = encodedLen - 2

C5_InvalidCharacterRejected ==
    (fn = "Parse" /\ step = 1) =>
        LET body == splitPrefixID(text).id
        IN  (Len(body) = encodedLen /\ \E k \in 1..Len(body) : ~IsBase62(body[k]))
                => ret.err = "invalid base62: output buffer too short"

\* C6: splitPrefixID cuts its input at the last '_' into a prefix and the
\* body; a prefix holding a '_' is cut at its first '_' into environment and
\* resource, any other prefix is the resource; an input without '_' is the body.
C6_SplitAtLastUnderscore ==
    (fn = "Split" /\ step = 1) =>
        IF ~HasUnderscore(text)
        THEN ret.environment = EmptyText /\ ret.resource = EmptyText /\ ret.id = text
        ELSE LET prefix == SubSeq(text, 1, Len(text) - Len(ret.id) - 1)
             IN  /\ ~HasUnderscore(ret.id)
                 /\ text = prefix \o <<Underscore>> \o ret.id
                 /\ IF HasUnderscore(prefix)
                    THEN /\ ~HasUnderscore(ret.environment)
                         /\ prefix = ret.environment \o <<Underscore>> \o ret.resource
                    ELSE ret.resource = prefix /\ ret.environment = EmptyText

\* a text with three '_' has been split: the resource keeps the middle one
C6_Witness ==
    /\ fn = "Split" /\ step = 1
    /\ ret.environment # EmptyText
    /\ HasUnderscore(ret.resource)
    /\ ret.id # EmptyText

\* the prefix C7 describes
ClaimedPrefix(v) ==
    IF v.Resource = EmptyText THEN EmptyText
    ELSE IF v.Environment = EmptyText \/ v.Environment = Production
    THEN v.Resource \o <<Underscore>>
    ELSE v.Environment \o <<Underscore>> \o v.Resource \o <<Underscore>>

\* C7: Bytes returns the prefix followed by 29 characters; the prefix is empty
\* for an empty resource, "<resource>_" for an empty or "prod" environment and
\* "<environment>_<resource>_" otherwise.
C7_BytesIsPrefixPlus29 ==
    (fn = "RoundTrip" /\ step >= 1 /\ argA.InstanceID # Nil) =>
        /\ Len(text) = Len(ClaimedPrefix(argA)) + 29
        /\ SubSeq(text, 1, Len(ClaimedPrefix(argA))) = ClaimedPrefix(argA)
        /\ ~HasUnderscore(SubSeq(text, Len(ClaimedPrefix(argA)) + 1, Len(text)))

\* Bytes has returned the text of a "prod" ID with a resource
C7_Witness ==
    /\ fn = "RoundTrip" /\ step = 1
    /\ argA.InstanceID # Nil
    /\ argA.Environment = Production
    /\ argA.Resource = ResUser
    /\ Len(text) = Len(ResUser) + 1 + 29

\* C8: Equal is true only of two IDs that both have an InstanceID and agree in
\* environment, resource, scheme, fingerprint, timestamp and sequence; an ID
\* without InstanceID is Equal to nothing, itself included.
C8_EqualNeedsInstanceID ==
    (fn = "Equal" /\ step = 1) =>
        /\ ret.equal =>
              /\ argA.InstanceID # Nil /\ argB.InstanceID # Nil
              /\ argA.Environment = argB.Environment
              /\ argA.Resource = argB.Resource
              /\ Scheme(argA.InstanceID) = Scheme(argB.InstanceID)
              /\ IIDBytes(argA.InstanceID) = IIDBytes(argB.InstanceID)
              /\ argA.Timestamp = argB.Timestamp
              /\ argA.SequenceID = argB.SequenceID
        /\ (argA.InstanceID = Nil \/ argB.InstanceID = Nil) => ~ret.equal

\* an ID without InstanceID has been compared with itself
C8_Witness ==
    /\ fn = "Equal" /\ step = 1
    /\ argA = argB
    /\ argA.InstanceID = Nil
    /\ ~ret.equal

-----------------------------------------------------------------------------
(* Claims about the Set *)

NoDuplicates(q) == \A j, k \in 1..Len(q) : q[j] = q[k] => j = k

\* C9: whenever no Append or Delete is under way, Set.items holds no value
\* twice and its elements are exactly the keys of Set.lookup (for a Set that
\* NewSet built from an array without duplicates).
C9_ItemsAreTheLookupKeys ==
    (smu.w = NoProc /\ NoDuplicates(newSetArg)) =>
        (NoDuplicates(items) /\ Range(items) = lookup)

\* C10: Append(id) returns true and puts id at the end exactly when the same
\* value is not in the set yet; otherwise it returns false and changes nothing.
C10_AppendsIffAbsent ==
    \A p \in Procs :
        spc[p] = "appended" =>
            /\ sret[p].appended <=> (sarg[p] \notin Range(sbefore[p]))
            /\ items = (IF sret[p].appended THEN Append(sbefore[p], sarg[p]) ELSE sbefore[p])

-----------------------------------------------------------------------------
(* Claims about the decoder *)

\* the digit a base-62 character stands for: its index in base62Characters
DigitOf(c) == CHOOSE d \in 0..(srcBase - 1) : Base62Char(d) = c

\* x * m + a for the big-endian bytes x, in Len(x) bytes
RECURSIVE MulAdd(_, _, _, _)
MulAdd(x, k, m, carry) ==
    IF k = 0 THEN x
    ELSE LET v == x[k] * m + carry
         IN  MulAdd([x EXCEPT ![k] = v % 256], k - 1, m, v \div 256)

\* the number a text denotes as a big-endian base-62 numeral, in n bytes
RECURSIVE NumeralValue(_, _, _)
NumeralValue(t, k, acc) ==
    IF k > Len(t) THEN acc
    ELSE NumeralValue(t, k + 1, MulAdd(acc, Len(acc), srcBase, DigitOf(t[k])))

\* the number of a 29-character text in 22 bytes, which hold 62^29 - 1
TextValue(t) == NumeralValue(t, 1, Zeros(decodedLen + 1))

IsBase62Text(t) == \A k \in 1..Len(t) : IsBase62(t[k])

\* C13: decoding a 29-character base-62 text into a 21-byte buffer fails with
\* "output buffer too short" exactly when the text's number needs more than 21
\* bytes, and succeeds otherwise.
C13_FailsIffOver21Bytes ==
    (fn = "Decode" /\ step = 1 /\ IsBase62Text(text)) =>
        /\ ret.err \in {"", "output buffer too short"}
        /\ (ret.err = "output buffer too short") <=> (TextValue(text)[1] # 0)

\* C14: when fastDecodeBase62 succeeds on a 29-character base-62 text, the 21
\* bytes of the buffer are the text's number in big-endian base 256, padded
\* with zero bytes on the left, whatever the buffer held before.
C14_OutputIsTheNumber ==
    (fn = "Decode" /\ step = 1 /\ IsBase62Text(text) /\ ret.err = "") =>
        /\ Len(ret.dst) = decodedLen
        /\ <<0>> \o ret.dst = TextValue(text)

\* the test vector decoded into a buffer that was in use: six bytes of padding
\* and fifteen of the number
C14_Witness ==
    /\ fn = "Decode" /\ step = 1
    /\ text = TestBody
    /\ buf = [k \in 1..decodedLen |-> 255]
    /\ ret.err = ""
    /\ LeadingZeros(ret.dst) > 0
    /\ ret.dst # Zeros(decodedLen)

-----------------------------------------------------------------------------
(* Claims about the exported Node *)

\* C16: no Generate reads Node.Environment or Node.InstanceID while a
\* SetEnvironment or SetInstanceID is storing that field.
C16_OverridesAreSerialized == ~fieldRace

\* C11: Delete(id) of a value present in the set (an element of Set.items and
\* a key of Set.lookup) takes exactly one element from Set.items, leaves id
\* neither in Set.items nor in Set.lookup and keeps the order of the other
\* elements; Delete of a value that is in neither changes nothing.
C11_DeleteRemovesPresentValue ==
    \A p \in Procs :
        spc[p] = "deleted" =>
            /\ (sarg[p] \in Range(sbefore[p]) /\ sarg[p] \in lbefore[p]) =>
                    /\ Len(items) = Len(sbefore[p]) - 1
                    /\ sarg[p] \notin lookup
                    /\ sarg[p] \notin Range(items)
                    /\ \E k \in 1..Len(sbefore[p]) :
                           sbefore[p][k] = sarg[p] /\ items = RemoveAt(sbefore[p], k)
            /\ (sarg[p] \notin Range(sbefore[p]) /\ sarg[p] \notin lbefore[p]) =>
                    (items = sbefore[p] /\ lookup = lbefore[p])

\* C12: an Iterator whose Set saw no Append and no Delete since Iter() has
\* yielded, after each Next, the first i.i elements of Set.items in their
\* order; Next returns true while fewer than Len() values were yielded, with
\* Value() the element just yielded, and false afterwards, with Value() = ID{}.
C12_IteratorYieldsItemsInOrder ==
    \A p \in Procs :
        (iter[p].open /\ ~iter[p].mutated /\ iter[p].nexts > 0) =>
            /\ iter[p].i <= Len(items)
            /\ iter[p].yielded = SubSeq(items, 1, iter[p].i)
            /\ iter[p].more <=> (iter[p].nexts <= Len(items))
            /\ iter[p].more => (iter[p].i = iter[p].nexts /\ iter[p].v = items[iter[p].i])
            /\ ~iter[p].more => (iter[p].yielded = items /\ iter[p].v = ZeroID)

\* an Iterator on a Set of two elements has yielded both and then returned false
C12_Witness ==
    \E p \in Procs :
        /\ iter[p].open /\ ~iter[p].mutated
        /\ Len(items) = 2
        /\ iter[p].nexts = 3
        /\ ~iter[p].more
        /\ iter[p].yielded = items

\* C15: no Len call reads Set.items while an Append or a Delete holds the
\* exclusive lock.
C15_LenReadsUnderTheLock == ~lenRace

=============================================================================
